---- MODULE Spec2Model ----
(***************************************************************************)
(* spending-tracker: the SQLite-backed Model (src/model.rs,                *)
(* src/model/schema.rs) and the Telegram update handlers (src/main.rs,     *)
(* src/bot.rs).                                                            *)
(*                                                                         *)
(* A store is a record [user_version, tables, rows].  SQLite runs every    *)
(* statement of execute_batch in its own implicit transaction (neither     *)
(* SCHEMA_V1 nor TEST_DATA holds a BEGIN/COMMIT), so a batch is modelled   *)
(* one statement per step, and the version pragma is a step of its own.    *)
(***************************************************************************)
EXTENDS Integers, Sequences, FiniteSets, TLC

VARIABLES
    file,           \* the database ./spending-tracker.db
    memory,         \* the database of an in-memory connection
    in_memory,      \* Model::new's argument: which database the connection is on
    foreign_keys,   \* PRAGMA foreign_keys of the open connection
    model_pc,       \* where the Model's owner is
    stmts,          \* the statements of the running execute_batch still to run
    panic,          \* the message of the panic that ended the owner, or "none"
    main_pc,        \* where main is
    update,         \* the update the dispatcher hands to a handler
    prompt,         \* the latest "Expense created!" message of the chat
    sent,           \* the Bot API calls of the latest handler run
    transactions    \* SpendingTrackerBot.transactions

model_vars == <<file, memory, in_memory, foreign_keys, model_pc, stmts, panic>>
main_vars == <<main_pc, update, prompt, sent, transactions>>
vars == <<file, memory, in_memory, foreign_keys, model_pc, stmts, panic,
          main_pc, update, prompt, sent, transactions>>

(***************************************************************************)
(* Bounds.                                                                 *)
(***************************************************************************)
MaxVersion == 3     \* persisted versions 0..MaxVersion
MaxLen == 2         \* lexemes in a text message
MaxChats == 2       \* chats (users) writing to the bot

(***************************************************************************)
(* schema.rs                                                               *)
(***************************************************************************)
LATEST == 1

Tables == {"Currency", "Account", "User", "ExpenseCategory", "Expense"}

SCHEMA_V1 ==
    << [op |-> "create", table |-> "Currency"],
       [op |-> "create", table |-> "Account"],
       [op |-> "create", table |-> "User"],
       [op |-> "create", table |-> "ExpenseCategory"],
       [op |-> "create", table |-> "Expense"] >>

TEST_DATA ==
    << [op |-> "insert", table |-> "Currency", values |-> <<[name |-> "EUR"]>>],
       [op |-> "insert", table |-> "Currency", values |-> <<[name |-> "USD"]>>],
       [op |-> "insert", table |-> "Currency", values |-> <<[name |-> "BYN"]>>],
       [op |-> "insert", table |-> "User",
        values |-> <<[id |-> 1001, display_name |-> "Alex"]>>],
       [op |-> "insert", table |-> "User",
        values |-> <<[id |-> 1002, display_name |-> "Hanna"]>>],
       [op |-> "insert", table |-> "Account",
        values |-> << [display_name |-> "Alex Savings", currencyId |-> 1],
                      [display_name |-> "Hanna Daily", currencyId |-> 2],
                      [display_name |-> "Family BYN", currencyId |-> 3] >>],
       [op |-> "insert", table |-> "ExpenseCategory",
        values |-> << [display_name |-> "Groceries"],
                      [display_name |-> "Transportation"],
                      [display_name |-> "Entertainment"],
                      [display_name |-> "Utilities"] >>],
       [op |-> "insert", table |-> "Expense",
        values |-> << [accountId |-> 1, categoryId |-> 1, userId |-> 1001],
                      [accountId |-> 2, categoryId |-> 2, userId |-> 1002],
                      [accountId |-> 3, categoryId |-> 3, userId |-> 1001],
                      [accountId |-> 2, categoryId |-> 4, userId |-> 1002] >>] >>

EmptyRows == [t \in Tables |-> {}]

EmptyStore == [user_version |-> 0, tables |-> {}, rows |-> EmptyRows]

Ids(rs) == {r.id : r \in rs}

\* INTEGER PRIMARY KEY AUTOINCREMENT; no row is ever deleted
NextId(rs) == IF rs = {} THEN 1 ELSE 1 + CHOOSE m \in Ids(rs) : \A n \in Ids(rs) : n <= m

\* the constraints of SCHEMA_V1 on a new row v of table t
RowAllowed(s, t, v, fk) ==
    CASE t = "Currency" -> \A r \in s.rows["Currency"] : r.name # v.name
      [] t = "User" -> v.id \notin Ids(s.rows["User"])
      [] t = "Account" -> fk => v.currencyId \in Ids(s.rows["Currency"])
      [] t = "ExpenseCategory" -> TRUE
      [] t = "Expense" ->
            fk => /\ v.accountId \in Ids(s.rows["Account"])
                  /\ v.categoryId \in Ids(s.rows["ExpenseCategory"])
                  /\ v.userId \in Ids(s.rows["User"])

WithId(s, t, v) == IF t = "User" THEN v ELSE [id |-> NextId(s.rows[t])] @@ v

RECURSIVE InsertRows(_, _, _, _)
InsertRows(s, t, values, fk) ==
    IF values = <<>> THEN [ok |-> TRUE, store |-> s]
    ELSE IF ~RowAllowed(s, t, Head(values), fk) THEN [ok |-> FALSE, store |-> s]
    ELSE InsertRows([s EXCEPT !.rows[t] = @ \cup {WithId(s, t, Head(values))}],
                    t, Tail(values), fk)

\* one statement, in its own transaction: all of it or none of it
Exec(s, stmt, fk) ==
    IF stmt.op = "create"
    THEN IF stmt.table \in s.tables
         THEN [ok |-> FALSE, store |-> s]
         ELSE [ok |-> TRUE, store |-> [s EXCEPT !.tables = @ \cup {stmt.table}]]
    ELSE IF stmt.table \notin s.tables
         THEN [ok |-> FALSE, store |-> s]
         ELSE LET r == InsertRows(s, stmt.table, stmt.values, fk)
              IN  IF r.ok THEN r ELSE [ok |-> FALSE, store |-> s]

RECURSIVE RunBatch(_, _, _)
RunBatch(s, batch, fk) ==
    IF batch = <<>> THEN s
    ELSE LET r == Exec(s, Head(batch), fk)
         IN  IF r.ok THEN RunBatch(r.store, Tail(batch), fk) ELSE s

\* init_schema with the arm for version 0 left empty
init_schema_arm_skips_v1(version) ==
    CASE version = 0 -> "up_to_date"
      [] version = 1 -> "up_to_date"
      [] OTHER -> "panic"

\* init_schema with the catch-all arm left empty
init_schema_arm_accepts_newer(version) ==
    CASE version = 0 -> "init_schema_v1"
      [] OTHER -> "up_to_date"

\* the match of init_schema
init_schema_arm(version) ==
    CASE version = 0 -> "init_schema_v1"
      [] version = 1 -> "up_to_date"
      [] OTHER -> "panic"

(***************************************************************************)
(* model.rs                                                                *)
(***************************************************************************)
Conn == IF in_memory THEN memory ELSE file

get_accounts ==
    << [id |-> 1, display_name |-> "User1"],
       [id |-> 2, display_name |-> "User2"],
       [id |-> 3, display_name |-> "User3"] >>

get_categories ==
    << [id |-> 1, display_name |-> "Category 1"],
       [id |-> 2, display_name |-> "Category 2"],
       [id |-> 3, display_name |-> "Category 3"] >>

Range(q) == {q[i] : i \in 1..Len(q)}

NoAccount == [id |-> 0, display_name |-> "None"]

get_account_info(id) ==
    IF \E a \in Range(get_accounts) : a.id = id
    THEN CHOOSE a \in Range(get_accounts) : a.id = id
    ELSE NoAccount

make_active_transaction ==
    [amount |-> 123, comments |-> "My comments", user_name |-> "My user",
     account_info |-> get_accounts[1], category_info |-> get_categories[1]]

\* the stores a process can find on disk: a fresh file, or one a run of this
\* or a later version of the program left behind, with or without fixtures
StoreAt(v, filled) ==
    LET s == [user_version |-> v, tables |-> Tables, rows |-> EmptyRows]
    IN  IF filled THEN RunBatch(s, TEST_DATA, TRUE) ELSE s

InitialStores ==
    {EmptyStore} \cup {StoreAt(v, f) : v \in 1..MaxVersion, f \in BOOLEAN}

Closed ==
    /\ memory' = EmptyStore
    /\ in_memory' = FALSE
    /\ foreign_keys' = FALSE
    /\ stmts' = <<>>
    /\ panic' = "none"
    /\ model_pc' = "none"

SetConn(s) ==
    IF in_memory THEN memory' = s /\ UNCHANGED file
                 ELSE file' = s /\ UNCHANGED memory

\* Model::new up to the match of init_schema
Model_new(mem) ==
    /\ model_pc = "none"
    /\ in_memory' = mem
    /\ foreign_keys' = TRUE
    /\ UNCHANGED <<file, memory>>
    /\ LET version == (IF mem THEN memory ELSE file).user_version
           arm == init_schema_arm(version)
       IN  CASE arm = "init_schema_v1" ->
                  /\ model_pc' = "init_schema_v1"
                  /\ stmts' = SCHEMA_V1
                  /\ panic' = "none"
             [] arm = "up_to_date" ->
                  /\ model_pc' = "created"
                  /\ stmts' = <<>>
                  /\ panic' = "none"
             [] OTHER ->
                  /\ model_pc' = "panicked"
                  /\ stmts' = <<>>
                  /\ panic' = "Unsupported schema version"
    /\ UNCHANGED main_vars

\* the next statement of conn.execute_batch(..).unwrap()
execute_batch ==
    /\ model_pc \in {"init_schema_v1", "fill_test_data"}
    /\ stmts # <<>>
    /\ LET r == Exec(Conn, Head(stmts), foreign_keys)
       IN  IF r.ok
           THEN /\ SetConn(r.store)
                /\ stmts' = Tail(stmts)
                /\ model_pc' = IF model_pc = "fill_test_data" /\ Tail(stmts) = <<>>
                               THEN "created" ELSE model_pc
                /\ UNCHANGED panic
           ELSE /\ UNCHANGED <<file, memory>>
                /\ stmts' = <<>>
                /\ model_pc' = "panicked"
                /\ panic' = "execute_batch"
    /\ UNCHANGED <<in_memory, foreign_keys>>
    /\ UNCHANGED main_vars

\* conn.pragma_update(None, "user_version", 1), the end of init_schema_v1
pragma_update_user_version ==
    /\ model_pc = "init_schema_v1"
    /\ stmts = <<>>
    /\ SetConn([Conn EXCEPT !.user_version = 1])
    /\ model_pc' = "created"
    /\ UNCHANGED <<in_memory, foreign_keys, stmts, panic>>
    /\ UNCHANGED main_vars

\* Model::fill_test_data is called
fill_test_data ==
    /\ model_pc = "created"
    /\ model_pc' = "fill_test_data"
    /\ stmts' = TEST_DATA
    /\ UNCHANGED <<file, memory, in_memory, foreign_keys, panic>>
    /\ UNCHANGED main_vars

\* the Model is dropped, or the panic has unwound: the connection closes
Drop ==
    /\ model_pc \in {"created", "panicked"}
    /\ Closed
    /\ UNCHANGED file
    /\ UNCHANGED main_vars

\* the process dies inside a batch or before the version pragma
Crash ==
    /\ model_pc \in {"init_schema_v1", "fill_test_data"}
    /\ Closed
    /\ UNCHANGED file
    /\ UNCHANGED main_vars

(***************************************************************************)
(* main.rs, bot.rs                                                         *)
(*                                                                         *)
(* A text is a sequence of lexemes; exponents, "+" and digits other than   *)
(* 5 are outside the alphabet.  The transport is an external collaborator: *)
(* its calls are taken to succeed.  The timestamp label of the keyboard is *)
(* the wall clock and is left out of the keyboard record, and so is the    *)
(* local `user`, which handle_message computes and never uses.             *)
(***************************************************************************)
Lexemes == {"-", "5", ".", "inf", "nan", "x"}

Texts == UNION {[1..k -> Lexemes] : k \in 0..MaxLen}

Chats == 1..MaxChats

CallbackData ==
    {"edit_amount", "edit_timestamp", "edit_account", "edit_category",
     "edit_currency", "commit", "bogus"}

TransactionState == {"Initial", "AccountEditing", "CategoryEditing"}

NoUpdate == [kind |-> "none"]

NoPrompt == [chat |-> 0]

Updates ==
    [kind : {"message"}, chat : Chats, has_text : {TRUE}, text : Texts]
    \cup [kind : {"message"}, chat : Chats, has_text : {FALSE}, text : {<<>>}]
    \cup [kind : {"callback_query"}, from : Chats, has_data : {TRUE},
          data : CallbackData, regular_message : BOOLEAN]
    \cup [kind : {"callback_query"}, from : Chats, has_data : {FALSE},
          data : {"none"}, regular_message : BOOLEAN]

\* k fives in a row, as a number
RECURSIVE Fives(_)
Fives(k) == IF k = 0 THEN 0 ELSE 10 * Fives(k - 1) + 5

Count(body, c) == Cardinality({i \in 1..Len(body) : body[i] = c})

\* str::parse::<f64>: [sign] ("inf" | "nan" | digits ["." digits]), at least
\* one digit; a finite value is mantissa / 10^scale
parse_f64(text) ==
    LET neg == text # <<>> /\ Head(text) = "-"
        body == IF neg THEN Tail(text) ELSE text
        dot == IF Count(body, ".") = 1
               THEN CHOOSE i \in 1..Len(body) : body[i] = "."
               ELSE 0
    IN  IF body = <<"inf">>
        THEN [ok |-> TRUE,
              value |-> [class |-> "inf", neg |-> neg, mantissa |-> 0, scale |-> 0]]
        ELSE IF body = <<"nan">>
        THEN [ok |-> TRUE,
              value |-> [class |-> "nan", neg |-> neg, mantissa |-> 0, scale |-> 0]]
        ELSE IF /\ \A i \in 1..Len(body) : body[i] \in {"5", "."}
                /\ Count(body, ".") <= 1
                /\ Count(body, "5") >= 1
        THEN [ok |-> TRUE,
              value |-> [class |-> "finite", neg |-> neg,
                         mantissa |-> Fives(Count(body, "5")),
                         scale |-> IF dot = 0 THEN 0 ELSE Len(body) - dot]]
        ELSE [ok |-> FALSE]

ModelInit ==
    /\ file \in InitialStores
    /\ memory = EmptyStore
    /\ in_memory = FALSE
    /\ foreign_keys = FALSE
    /\ model_pc = "none"
    /\ stmts = <<>>
    /\ panic = "none"
    /\ main_pc = "start"
    /\ update = NoUpdate
    /\ prompt = NoPrompt
    /\ sent = <<>>
    /\ transactions = <<>>

ModelNext ==
    \/ \E mem \in BOOLEAN : Model_new(mem)
    \/ execute_batch
    \/ pragma_update_user_version
    \/ fill_test_data
    \/ Drop

SpecModel == ModelInit /\ [][ModelNext]_vars

SpecCrash == ModelInit /\ [][ModelNext \/ Crash]_vars

send_message(chat, text) == [method |-> "send_message", chat |-> chat, text |-> text]

\* the reply of handle_callback_query to the callback data
callback_reply(data) ==
    CASE data = "edit_amount" -> "Send the new amount:"
      [] data = "edit_timestamp" -> "Send the new timestamp:"
      [] data = "edit_account" -> "Send the new account:"
      [] data = "edit_currency" -> "Send the new currency:"
      [] data = "commit" -> "Expense saved successfully!"
      [] OTHER -> "Unknown action."

\* main: the dispatcher starts; nothing opens the store
dispatch ==
    /\ main_pc = "start"
    /\ main_pc' = "dispatching"
    /\ UNCHANGED <<update, prompt, sent, transactions>>
    /\ UNCHANGED model_vars

\* the transport delivers an update; a callback query attached to a regular
\* message is a press of a button of the prompt
Receive(u) ==
    /\ main_pc = "dispatching"
    /\ u.kind = "callback_query" /\ u.regular_message => prompt # NoPrompt
    /\ update' = u
    /\ main_pc' = "handling"
    /\ UNCHANGED <<prompt, sent, transactions>>
    /\ UNCHANGED model_vars

handle_message ==
    /\ main_pc = "handling"
    /\ update.kind = "message"
    /\ IF ~update.has_text
       THEN /\ sent' = <<>>
            /\ UNCHANGED prompt
       ELSE LET r == parse_f64(update.text)
            IN  IF r.ok
                THEN LET created ==
                            [chat |-> update.chat,
                             text |-> "Expense created! Edit properties if needed:",
                             keyboard |-> [amount |-> r.value,
                                           account |-> "default_account",
                                           currency |-> "USD"]]
                     IN  /\ prompt' = created
                         /\ sent' = <<[method |-> "send_message"] @@ created>>
                ELSE /\ sent' = <<send_message(update.chat,
                                               "Please send a valid amount.")>>
                     /\ UNCHANGED prompt
    /\ update' = NoUpdate
    /\ main_pc' = "dispatching"
    /\ UNCHANGED transactions
    /\ UNCHANGED model_vars

handle_callback_query ==
    /\ main_pc = "handling"
    /\ update.kind = "callback_query"
    /\ IF ~update.has_data
       THEN /\ sent' = <<>>
            /\ UNCHANGED prompt
       ELSE /\ sent' = <<send_message(update.from, callback_reply(update.data)),
                         [method |-> "answer_callback_query"]>>
                       \o IF update.regular_message
                          THEN <<[method |-> "edit_message_text",
                                  chat |-> prompt.chat, text |-> "new text"]>>
                          ELSE <<>>
            /\ prompt' = IF update.regular_message
                         THEN [prompt EXCEPT !.text = "new text"]
                         ELSE prompt
    /\ update' = NoUpdate
    /\ main_pc' = "dispatching"
    /\ UNCHANGED transactions
    /\ UNCHANGED model_vars

\* the binary: ./spending-tracker.db is never opened, so never created
Init ==
    /\ ModelInit
    /\ file = EmptyStore

Next ==
    \/ dispatch
    \/ \E u \in Updates : Receive(u)
    \/ handle_message
    \/ handle_callback_query

Spec == Init /\ [][Next]_vars

(***************************************************************************)
(* The migrator: init_schema as Model::new runs it.                        *)
(***************************************************************************)
Opens == model_pc = "none" /\ model_pc' # "none"

\* C1: from a persisted version V <= LATEST the migrator never panics and,
\* when Model::new returns, the store is at exactly LATEST with the five v1
\* tables; run on a store already at LATEST it returns at once and changes
\* neither the version nor the schema.
C1_MigratesToLatest ==
    [][ /\ Opens /\ Conn'.user_version <= LATEST => model_pc' # "panicked"
        /\ model_pc = "init_schema_v1" => model_pc' # "panicked"
        /\ model_pc' = "created" =>
              Conn'.user_version = LATEST /\ Conn'.tables = Tables
        /\ Opens /\ Conn'.user_version = LATEST =>
              model_pc' = "created" /\ file' = file /\ memory' = memory ]_vars

\* Model::new has returned on an in-memory database, which every time starts
\* at version 0: init_schema_v1 has run and left it at LATEST with the schema
C1_Witness ==
    /\ model_pc = "created"
    /\ in_memory
    /\ memory.user_version = LATEST
    /\ memory.tables = Tables

\* C2: on a persisted version above LATEST Model::new panics with
\* "Unsupported schema version" and writes nothing: the version, the tables
\* and the rows are as they were, up to the end of the process.
C2_UnsupportedVersion ==
    [][ /\ Opens /\ Conn'.user_version > LATEST =>
              /\ model_pc' = "panicked"
              /\ panic' = "Unsupported schema version"
              /\ file' = file /\ memory' = memory
        /\ panic = "Unsupported schema version" => file' = file ]_vars

\* the panic of the catch-all arm, on a file of a later version
C2_Witness ==
    /\ model_pc = "panicked"
    /\ panic = "Unsupported schema version"
    /\ file.user_version > LATEST

\* C3: whenever no process has the file open (so also after a crash inside
\* init_schema_v1) a file of version <= LATEST is either at version 0 with
\* no v1 table or at version 1 with all of them.
C3_StepIsAtomic ==
    model_pc = "none" /\ file.user_version <= LATEST =>
        \/ file.user_version = 0 /\ file.tables = {}
        \/ file.user_version = 1 /\ file.tables = Tables

\* C10: while a Model exists and no batch runs, get_accounts and
\* get_categories list exactly the Account and ExpenseCategory rows of the
\* store, get_account_info resolves only ids of Account rows, and neither
\* list is empty once the fixtures are in.
AccountInfos(s) ==
    {[id |-> r.id, display_name |-> r.display_name] : r \in s.rows["Account"]}

CategoryInfos(s) ==
    {[id |-> r.id, display_name |-> r.display_name] : r \in s.rows["ExpenseCategory"]}

C10_ListsAreTheRows ==
    model_pc = "created" =>
        /\ Range(get_accounts) = AccountInfos(Conn)
        /\ Range(get_categories) = CategoryInfos(Conn)
        /\ \A id \in 0..4 :
              get_account_info(id) # NoAccount => id \in Ids(Conn.rows["Account"])
        /\ Conn.rows["Currency"] # {} =>
              Len(get_accounts) > 0 /\ Len(get_categories) > 0

(***************************************************************************)
(* The handlers.                                                           *)
(***************************************************************************)
Created == "Expense created! Edit properties if needed:"

Handles(kind) ==
    main_pc = "handling" /\ update.kind = kind /\ main_pc' = "dispatching"

\* the prompt is a draft nobody has pressed a button of, with an amount
\* that is finite and not negative
ValidDraft(p) ==
    /\ p # NoPrompt
    /\ p.text = Created
    /\ p.keyboard.amount.class = "finite"
    /\ ~p.keyboard.amount.neg

Key(user, p) == [telegram_user_id |-> user, message |-> p]

\* C4: a handler runs only once the migrator has run to completion.
C4_MigrationBarrier == main_pc = "handling" => model_pc = "created"

\* C5: a commit pressed on a valid draft adds exactly one Expense row and
\* takes the draft's key out of the registry.
C5_CommitPersists ==
    [][ /\ Handles("callback_query")
        /\ update.has_data /\ update.data = "commit"
        /\ update.regular_message /\ ValidDraft(prompt)
        => /\ Cardinality(file'.rows["Expense"])
                 = Cardinality(file.rows["Expense"]) + 1
           /\ Key(update.from, prompt) \notin DOMAIN transactions' ]_vars

EditPrompts ==
    {"Send the new amount:", "Send the new timestamp:", "Send the new account:",
     "Send the new category:", "Send the new currency:"}

\* the latest handler run answered a field choice made on the prompt of chat c
AwaitingFieldValue(c) ==
    /\ Len(sent) = 3
    /\ sent[1].text \in EditPrompts
    /\ sent[1].chat = c
    /\ prompt.chat = c

\* C6: once a field of a draft has been chosen, the next text of that chat
\* is taken as the value of the field, not as the start of a new draft.
C6_NextTextIsTheValue ==
    [][ /\ Handles("message")
        /\ update.has_text
        /\ AwaitingFieldValue(update.chat)
        => \A i \in 1..Len(sent') : sent'[i].text # Created ]_vars

CallbackActions ==
    {"edit_amount", "edit_timestamp", "edit_account", "edit_category",
     "edit_currency", "commit"}

\* C7: the six callback actions are accepted, every other identifier is
\* answered as an unknown action, and an unknown one changes neither the
\* registry nor the draft.
C7_ClosedActionSet ==
    [][ Handles("callback_query") /\ update.has_data
        => /\ sent'[1].text = "Unknown action." <=> update.data \notin CallbackActions
           /\ update.data \notin CallbackActions /\ ~update.regular_message =>
                 transactions' = transactions /\ prompt' = prompt ]_vars

\* C8: a text that parses as an amount a creates a draft with amount a and
\* the first account the store lists, registered in state Initial.
C8_DraftDefaults ==
    [][ Handles("message") /\ update.has_text /\ parse_f64(update.text).ok
        => /\ prompt'.chat = update.chat
           /\ prompt'.keyboard.amount = parse_f64(update.text).value
           /\ prompt'.keyboard.account = get_accounts[1].display_name
           /\ \E k \in DOMAIN transactions' : transactions'[k] = "Initial" ]_vars

\* numeric, finite and not negative
AcceptableAmount(text) ==
    /\ parse_f64(text).ok
    /\ parse_f64(text).value.class = "finite"
    /\ ~parse_f64(text).value.neg

\* C9: a text that is not numeric, finite and non-negative is answered as
\* an invalid amount and creates or changes no draft.
C9_AmountValidation ==
    [][ Handles("message") /\ update.has_text /\ ~AcceptableAmount(update.text)
        => /\ sent' = <<send_message(update.chat, "Please send a valid amount.")>>
           /\ prompt' = prompt
           /\ transactions' = transactions ]_vars

====
